---- MODULE Spec2Model ----
(***************************************************************************)
(* A model of validator_lib/utilities.py of crl-serials-validator:         *)
(*   - FieldsAndIssuesFinder, the fields / disqualifying-issues lookup,    *)
(*     and get_disqualifying_issue_categories;                             *)
(*   - the slash-year double checks (get_earlier_of_slash_year,            *)
(*     get_later_of_slash_year, double_check_slash_start_year,             *)
(*     double_check_slash_end_year);                                       *)
(*   - get_unused_filename.                                                *)
(* Strings are sequences of one-character strings, so that splitting,      *)
(* lower-casing, formatting and regular-expression matching are computed   *)
(* character by character, as the Python code computes them.               *)
(***************************************************************************)
EXTENDS Integers, Sequences, FiniteSets, TLC

VARIABLES
    \* --- FieldsAndIssuesFinder and its configuration ---
    per_file_fields,        \* validator_config: filename -> input fields
    config,                 \* validator_config.config (global section)
    bulk_config_data,       \* bulk_config.bulk_config_data
    associated_names_map,   \* bulk_config.associated_names_map
    use_validator_config,   \* instance -> self.use_validator_config
    last,                   \* the call that has just returned, with its value
    prev,                   \* the call before it
    fields_file,            \* the filename of the latest fields lookup
    \* --- two callers, one filename each ---
    mode,                   \* "shared": one finder; "per_file": one each
    wpc,                    \* caller -> "fields" | "issues" | "done"
    trace,                  \* the callers' steps, in order
    wret,                   \* caller -> issues it was given
    \* --- slash-year double checks ---
    bib_year, bib_string, holdings_year, holdings_string,
    ypc,                    \* "input" | "start" | "end"
    new_bib_year, new_holdings_year,
    yret,                   \* the double check's return value
    \* --- get_unused_filename ---
    fs,                     \* the files that exist
    file_location,          \* the argument
    new_file_number,
    upc,                    \* "call" | "loop" | "returned" | "Exception" | "ValueError"
    uret                    \* the path returned

finder_vars == <<per_file_fields, config, bulk_config_data, associated_names_map,
                 use_validator_config, last, prev, fields_file>>
worker_vars == <<mode, wpc, trace, wret>>
year_vars == <<bib_year, bib_string, holdings_year, holdings_string, ypc,
               new_bib_year, new_holdings_year, yret>>
path_vars == <<fs, file_location, new_file_number, upc, uret>>
vars == <<finder_vars, worker_vars, year_vars, path_vars>>

(***************************************************************************)
(* Strings                                                                 *)
(***************************************************************************)

\* The largest index of character ch in s, 0 when there is none.
LastIndexOf(s, ch) ==
    LET hits == {i \in 1..Len(s) : s[i] = ch}
    IN  IF hits = {} THEN 0 ELSE CHOOSE i \in hits : \A j \in hits : j <= i

\* The smallest index of character ch in s, 0 when there is none.
FirstIndexOf(s, ch) ==
    LET hits == {i \in 1..Len(s) : s[i] = ch}
    IN  IF hits = {} THEN 0 ELSE CHOOSE i \in hits : \A j \in hits : i <= j

\* s[a..b] (1-based, inclusive), the empty string when a > b.
Slice(s, a, b) == [i \in 1..(b - a + 1) |-> s[a + i - 1]]

\* str.lower() on the characters of the model's alphabet.
LowerChar(c) ==
    CASE c = "A" -> "a"
      [] c = "B" -> "b"
      [] c = "C" -> "c"
      [] OTHER   -> c

Lower(s) == [i \in 1..Len(s) |-> LowerChar(s[i])]

\* os.path.split: <<head, tail>> around the last "/".
os_path_split(p) ==
    LET i == LastIndexOf(p, "/")
    IN  IF i = 0 THEN << <<>>, p >>
        ELSE << (IF i = 1 THEN <<"/">> ELSE Slice(p, 1, i - 1)), Slice(p, i + 1, Len(p)) >>

\* os.path.join of a directory and a relative file name.
os_path_join(a, b) ==
    IF Len(a) = 0 THEN b
    ELSE IF a[Len(a)] = "/" THEN a \o b
    ELSE a \o <<"/">> \o b

(***************************************************************************)
(* FieldsAndIssuesFinder                                                   *)
(***************************************************************************)

\* The input files of the model and "no filename" (None, or the empty string).
F1 == <<"d", "/", "A", ".", "t">>
F2 == <<"b", ".", "t">>
Files == {F1, F2}
NoFilename == <<>>

\* Institution keys: those of F1 and F2, and a program others are associated with.
InstA == <<"a">>
InstB == <<"b">>
InstC == <<"c">>

\* Field sets, one per place a field set can come from.
OverrideFields(f) == IF f = F1 THEN <<"001", "866">> ELSE <<"004">>
BulkFields(inst) ==
    CASE inst = InstA -> <<"035", "866">>
      [] inst = InstB -> <<"863">>
      [] OTHER        -> <<"001", "035">>

\* Issue flags, one mapping per place an issue mapping can come from.
BulkIssues(inst) ==
    CASE inst = InstA -> ("binding" :> TRUE @@ "completeness" :> FALSE)
      [] inst = InstB -> ("completeness" :> TRUE)
      [] OTHER        -> ("nonprint" :> TRUE @@ "binding" :> FALSE)
GlobalIssues == ("binding" :> TRUE @@ "nonprint" :> TRUE @@ "completeness" :> FALSE)
EmptyIssues == [k \in {} |-> TRUE]

\* ValidatorConfig.get_default_disqualifying_issues(): the built-in baseline.
get_default_disqualifying_issues ==
    ("binding" :> TRUE @@ "completeness" :> TRUE @@ "nonprint" :> FALSE)

\* ValidatorConfig.get_input_fields(filename): the file's own fields, empty when
\* the configuration has none for it.
get_input_fields(filename) ==
    IF filename \in DOMAIN per_file_fields THEN per_file_fields[filename] ELSE <<>>

\* The configurations a finder can be constructed over.
PerFileConfigs ==
    UNION {{g \in [D -> {<<>>} \cup {OverrideFields(f) : f \in Files}] :
               \A f \in D : g[f] \in {<<>>, OverrideFields(f)}} : D \in SUBSET Files}
GlobalConfigs ==
    {EmptyIssues, "disqualifying_issues" :> EmptyIssues, "disqualifying_issues" :> GlobalIssues}
BulkConfigs ==
    {[inst \in D \cup {InstC} |->
        [input_fields |-> BulkFields(inst), disqualifying_issues |-> BulkIssues(inst)]] :
     D \in SUBSET {InstA, InstB}}
AssociatedNamesMaps ==
    {[inst \in D |-> InstC] : D \in SUBSET {InstA, InstB}}

Instances == {"shared", "w1", "w2"}

\* FieldsAndIssuesFinder.__init__: self.use_validator_config = False
NewFinder == FALSE

get_institution_name_from_filename(filename) ==
    LET file_proper == os_path_split(filename)[2]
        dot == FirstIndexOf(file_proper, ".")
        first == IF dot = 0 THEN file_proper ELSE Slice(file_proper, 1, dot - 1)
    IN  Lower(first)

\* A variant of FieldsFromBulk that asks the associated names first.
FieldsFromBulkAliasFirst(inst_name) ==
    IF inst_name \in DOMAIN associated_names_map
    THEN [none |-> FALSE,
          val |-> bulk_config_data[associated_names_map[inst_name]].input_fields]
    ELSE IF inst_name \in DOMAIN bulk_config_data
    THEN [none |-> FALSE, val |-> bulk_config_data[inst_name].input_fields]
    ELSE [none |-> TRUE, val |-> <<>>]
\* The bulk part of get_fields_for_individual_file: the institution's own entry,
\* else the entry of the program it is associated with, else None.
FieldsFromBulk(inst_name) ==
    IF inst_name \in DOMAIN bulk_config_data
    THEN [none |-> FALSE, val |-> bulk_config_data[inst_name].input_fields]
    ELSE IF inst_name \in DOMAIN associated_names_map
    THEN [none |-> FALSE,
          val |-> bulk_config_data[associated_names_map[inst_name]].input_fields]
    ELSE [none |-> TRUE, val |-> <<>>]

\* What get_fields_for_individual_file(filename) returns.
FieldsReturn(filename) ==
    LET input_fields == get_input_fields(filename)
    IN  IF Len(input_fields) > 0
        THEN [none |-> FALSE, val |-> input_fields]
        ELSE FieldsFromBulk(get_institution_name_from_filename(filename))

\* Variants of FieldsFlag: one that never resets the flag, one that sets it for
\* any entry of the file, an empty one too.
FieldsFlagSticky(old, filename) == old \/ Len(get_input_fields(filename)) > 0
FieldsFlagAnyEntry(old, filename) == filename \in DOMAIN per_file_fields
\* What get_fields_for_individual_file(filename) leaves in self.use_validator_config.
FieldsFlag(old, filename) == Len(get_input_fields(filename)) > 0

\* A variant of IssuesFallThrough that returns an empty global section too.
IssuesFallThroughAnyGlobal ==
    IF "disqualifying_issues" \in DOMAIN config
    THEN config["disqualifying_issues"]
    ELSE get_default_disqualifying_issues
\* The end of get_issues_for_individual_file: the global section when it has a
\* non-empty "disqualifying_issues", else the defaults.
IssuesFallThrough ==
    IF "disqualifying_issues" \in DOMAIN config
       /\ DOMAIN config["disqualifying_issues"] # {}
    THEN config["disqualifying_issues"]
    ELSE get_default_disqualifying_issues

\* What get_issues_for_individual_file(filename) returns on a finder whose
\* use_validator_config is flag.
IssuesReturn(flag, filename) ==
    IF Len(filename) > 0
    THEN LET inst_name == get_institution_name_from_filename(filename)
         IN  IF inst_name \in DOMAIN bulk_config_data /\ ~flag
             THEN bulk_config_data[inst_name].disqualifying_issues
             ELSE IF inst_name \in DOMAIN associated_names_map
             THEN bulk_config_data[associated_names_map[inst_name]].disqualifying_issues
             ELSE IssuesFallThrough
    ELSE IssuesFallThrough

\* A variant of IssuesFlag that clears the flag once it has been used.
IssuesFlagConsumed(old) == FALSE
\* What get_issues_for_individual_file leaves in self.use_validator_config.
IssuesFlag(old) == old

\* A variant of ActiveCategories that keeps every category of the mapping.
ActiveCategoriesAllKeys(disqualifying_issues) == DOMAIN disqualifying_issues
\* The categories get_disqualifying_issue_categories keeps of an issue mapping.
ActiveCategories(disqualifying_issues) ==
    {issue \in DOMAIN disqualifying_issues : disqualifying_issues[issue]}

NoCall == [op |-> "none", file |-> NoFilename, none |-> TRUE, val |-> <<>>]

InitFinder ==
    /\ per_file_fields \in PerFileConfigs
    /\ config \in GlobalConfigs
    /\ bulk_config_data \in BulkConfigs
    /\ associated_names_map \in AssociatedNamesMaps
    /\ use_validator_config = [i \in Instances |-> NewFinder]
    /\ last = NoCall
    /\ prev = NoCall
    /\ fields_file = NoFilename

get_fields_for_individual_file(self, filename) ==
    LET r == FieldsReturn(filename)
    IN  /\ use_validator_config' =
              [use_validator_config EXCEPT
                  ![self] = FieldsFlag(use_validator_config[self], filename)]
        /\ prev' = last
        /\ last' = [op |-> "fields", file |-> filename, none |-> r.none, val |-> r.val]
        /\ fields_file' = filename
        /\ UNCHANGED <<per_file_fields, config, bulk_config_data, associated_names_map>>

get_issues_for_individual_file(self, filename) ==
    /\ use_validator_config' =
          [use_validator_config EXCEPT ![self] = IssuesFlag(use_validator_config[self])]
    /\ prev' = last
    /\ last' = [op |-> "issues", file |-> filename, none |-> FALSE,
                val |-> IssuesReturn(use_validator_config[self], filename)]
    /\ UNCHANGED <<per_file_fields, config, bulk_config_data, associated_names_map,
                   fields_file>>

\* The function makes a finder of its own, asks it for the issues and drops it.
get_disqualifying_issue_categories(input_file) ==
    /\ prev' = last
    /\ last' = [op |-> "categories", file |-> input_file, none |-> FALSE,
                val |-> ActiveCategories(IssuesReturn(NewFinder, input_file))]
    /\ UNCHANGED <<per_file_fields, config, bulk_config_data, associated_names_map,
                   use_validator_config, fields_file>>

\* Two callers, one filename each, each doing a fields lookup and then an issues
\* lookup, on one finder between them or on a finder each.
WorkerFile(w) == IF w = 1 THEN F1 ELSE F2
InstanceOf(w) == IF mode = "shared" THEN "shared" ELSE IF w = 1 THEN "w1" ELSE "w2"

WorkerFields(w) ==
    /\ wpc[w] = "fields"
    /\ get_fields_for_individual_file(InstanceOf(w), WorkerFile(w))
    /\ wpc' = [wpc EXCEPT ![w] = "issues"]
    /\ trace' = Append(trace, <<"fields", w>>)
    /\ UNCHANGED <<mode, wret>>

WorkerIssues(w) ==
    /\ wpc[w] = "issues"
    /\ get_issues_for_individual_file(InstanceOf(w), WorkerFile(w))
    /\ wret' = [wret EXCEPT ![w] = last'.val]
    /\ wpc' = [wpc EXCEPT ![w] = "done"]
    /\ trace' = Append(trace, <<"issues", w>>)
    /\ UNCHANGED mode

InitWorkers ==
    /\ mode \in {"shared", "per_file"}
    /\ wpc = [w \in {1, 2} |-> "fields"]
    /\ trace = <<>>
    /\ wret = [w \in {1, 2} |-> EmptyIssues]

(***************************************************************************)
(* Slash years                                                             *)
(***************************************************************************)

DigitChars == <<"0", "1", "2", "3", "4", "5", "6", "7", "8", "9">>
IsDigit(c) == \E i \in 1..Len(DigitChars) : DigitChars[i] = c
DigitVal(c) == (CHOOSE i \in 1..Len(DigitChars) : DigitChars[i] = c) - 1

\* \b after a digit: the end of the text, or a character that is no word character.
IsWordChar(c) == IsDigit(c) \/ c \in {"v", "_"}
BoundaryAfterDigit(seg, p) == p > Len(seg) \/ ~IsWordChar(seg[p])

\* int(s) of a string of digits.
RECURSIVE IntOf(_)
IntOf(s) ==
    IF Len(s) = 0 THEN 0
    ELSE 10 * IntOf(Slice(s, 1, Len(s) - 1)) + DigitVal(s[Len(s)])

\* str(n) of a natural number.
RECURSIVE StrOf(_)
StrOf(n) ==
    IF n < 10 THEN <<DigitChars[n + 1]>>
    ELSE StrOf(n \div 10) \o <<DigitChars[(n % 10) + 1]>>

\* The text has lit at index j.
LiteralAt(seg, j, lit) ==
    /\ j + Len(lit) - 1 <= Len(seg)
    /\ \A k \in 1..Len(lit) : seg[j + k - 1] = lit[k]

\* (?:1[6789]\d\d|20[01]\d|2020) at index i: every alternative is four characters.
YearRegexAt(seg, i) ==
    /\ i + 3 <= Len(seg)
    /\ \/ /\ seg[i] = "1" /\ seg[i + 1] \in {"6", "7", "8", "9"}
          /\ IsDigit(seg[i + 2]) /\ IsDigit(seg[i + 3])
       \/ /\ seg[i] = "2" /\ seg[i + 1] = "0" /\ seg[i + 2] \in {"0", "1"}
          /\ IsDigit(seg[i + 3])
       \/ LiteralAt(seg, i, <<"2", "0", "2", "0">>)

\* " *": the index after the spaces that start at j.
RECURSIVE SkipSpaces(_, _)
SkipSpaces(seg, j) ==
    IF j <= Len(seg) /\ seg[j] = " " THEN SkipSpaces(seg, j + 1) ELSE j

\* " *[-/] *" at index j: the index after it, 0 when it does not match.
SeparatorAt(seg, j) ==
    LET k == SkipSpaces(seg, j)
    IN  IF k <= Len(seg) /\ seg[k] \in {"-", "/"} THEN SkipSpaces(seg, k + 1) ELSE 0

\* ({year_regex}) *[-/] *(?:{year}|{short_year}) matches at index i.
EarlierMatchAt(year, seg, i) ==
    /\ YearRegexAt(seg, i)
    /\ LET k == SeparatorAt(seg, i + 4)
       IN  /\ k # 0
           /\ \/ LiteralAt(seg, k, year)
              \/ LiteralAt(seg, k, Slice(year, 3, Len(year)))

\* re.search: group 1 of the leftmost match, <<>> when there is none.
EarlierFound(year, seg) ==
    LET hits == {i \in 1..Len(seg) : EarlierMatchAt(year, seg, i)}
    IN  IF hits = {} THEN <<>>
        ELSE LET i == CHOOSE h \in hits : \A g \in hits : h <= g
             IN  Slice(seg, i, i + 3)

\* A variant of get_earlier_of_slash_year that takes the year found as it is.
get_earlier_of_slash_year_unguarded(year, data_segment) ==
    LET found_year == EarlierFound(year, data_segment)
    IN  IF Len(found_year) > 0 THEN found_year ELSE year
\* The year found before the separator when it is the smaller one, else year.
get_earlier_of_slash_year(year, data_segment) ==
    LET found_year == EarlierFound(year, data_segment)
    IN  IF Len(found_year) > 0 /\ IntOf(found_year) < IntOf(year)
        THEN found_year
        ELSE year

\* ((?:1[6789]\d\d|20[01]\d|2020|\d\d))\b at index k: the group, <<>> when none.
SecondYearAt(seg, k) ==
    IF YearRegexAt(seg, k) /\ BoundaryAfterDigit(seg, k + 4)
    THEN Slice(seg, k, k + 3)
    ELSE IF /\ k + 1 <= Len(seg) /\ IsDigit(seg[k]) /\ IsDigit(seg[k + 1])
            /\ BoundaryAfterDigit(seg, k + 2)
    THEN Slice(seg, k, k + 1)
    ELSE <<>>

\* {year} *[-/] *((?:...))\b at index i: group 1, <<>> when it does not match.
LaterGroupAt(year, seg, i) ==
    IF ~LiteralAt(seg, i, year) THEN <<>>
    ELSE LET k == SeparatorAt(seg, i + Len(year))
         IN  IF k = 0 THEN <<>> ELSE SecondYearAt(seg, k)

LaterFound(year, seg) ==
    LET hits == {i \in 1..Len(seg) : Len(LaterGroupAt(year, seg, i)) > 0}
    IN  IF hits = {} THEN <<>>
        ELSE LET i == CHOOSE h \in hits : \A g \in hits : h <= g
             IN  LaterGroupAt(year, seg, i)

get_later_of_slash_year(year, data_segment) ==
    LET m == LaterFound(year, data_segment)
        found_year == IF Len(m) = 2 THEN Slice(year, 1, 2) \o m ELSE m
    IN  IF Len(m) > 0 /\ IntOf(found_year) > IntOf(year)
        THEN found_year
        ELSE year

\* The years and texts the double checks are tried on: a year alone, and two
\* years a year apart around "/" or "-", the second in full or as two digits, with
\* up to MaxSpaces spaces on each side of the separator, or with text around.
MaxSpaces == 1
YearValues == {1999, 2000, 2001, 2020, 2021}
YearPairs == {p \in YearValues \X YearValues : p[1] - p[2] \in {1, -1}}
Spaces(k) == [i \in 1..k |-> " "]
SecondForms(y) == {StrOf(y), Slice(StrOf(y), 3, 4)}
SlashForms(p, k, sep) ==
    {StrOf(p[1]) \o Spaces(k) \o <<sep>> \o Spaces(k) \o second :
        second \in SecondForms(p[2])}
YearTexts ==
    LET plain == {StrOf(y) : y \in YearValues}
        slash == UNION {SlashForms(p, k, sep) :
                           p \in YearPairs, k \in 0..MaxSpaces, sep \in {"/", "-"}}
        bare  == UNION {SlashForms(p, 0, "/") : p \in YearPairs}
    IN  plain \cup slash
          \cup {<<"v", " ">> \o t : t \in bare}
          \cup {t \o <<"v">> : t \in bare}

InitYears ==
    /\ bib_year \in {StrOf(y) : y \in YearValues}
    /\ bib_string \in YearTexts
    /\ holdings_year \in {StrOf(y) : y \in YearValues}
    /\ holdings_string \in YearTexts
    /\ ypc = "input"
    /\ new_bib_year = bib_year
    /\ new_holdings_year = holdings_year
    /\ yret = FALSE

double_check_slash_start_year ==
    /\ ypc = "input"
    /\ new_bib_year' = get_earlier_of_slash_year(bib_year, bib_string)
    /\ new_holdings_year' = get_later_of_slash_year(holdings_year, holdings_string)
    /\ yret' = (IntOf(new_holdings_year') >= IntOf(new_bib_year'))
    /\ ypc' = "start"
    /\ UNCHANGED <<bib_year, bib_string, holdings_year, holdings_string>>

double_check_slash_end_year ==
    /\ ypc = "input"
    /\ new_holdings_year' = get_earlier_of_slash_year(holdings_year, holdings_string)
    /\ new_bib_year' = get_later_of_slash_year(bib_year, bib_string)
    /\ yret' = (IntOf(new_holdings_year') <= IntOf(new_bib_year'))
    /\ ypc' = "end"
    /\ UNCHANGED <<bib_year, bib_string, holdings_year, holdings_string>>

(***************************************************************************)
(* get_unused_filename                                                     *)
(***************************************************************************)

\* "if new_file_number >= 999": the last number tried.
LastFileNumber == 999

\* os.path.isfile
isfile(path) == path \in fs

\* str.rindex('.') finds a period (it raises ValueError when there is none).
HasPeriod(full_filename) == LastIndexOf(full_filename, ".") # 0

\* '{}({}){}'.format(base_filename, new_file_number, file_extension), joined to
\* the directory of the path.
NumberedLocation(location, number) ==
    LET path_base == os_path_split(location)[1]
        full_filename == os_path_split(location)[2]
        dot == LastIndexOf(full_filename, ".")
        base_filename == Slice(full_filename, 1, dot - 1)
        file_extension == Slice(full_filename, dot, Len(full_filename))
        new_filename == base_filename \o <<"(">> \o StrOf(number) \o <<")">> \o file_extension
    IN  os_path_join(path_base, new_filename)

\* The paths asked for, and the file systems they are asked on: the path and its
\* numbered names up to a number taken, with one of them free, or with all of them
\* taken up to the last number or the one before it.
MaxTaken == 3
Locations ==
    {<<"x", ".", "t">>, <<"d", "/", "x", ".", "t">>, <<"x">>, <<"d", ".", "e", "/", "x">>}
TakenNumbers ==
    {0..(k - 1) : k \in 0..(MaxTaken + 1)}
      \cup {(0..MaxTaken) \ {h} : h \in 0..MaxTaken}
      \cup {0..LastFileNumber, 0..(LastFileNumber - 1), (0..LastFileNumber) \ {1}}
FileSystems(location) ==
    IF HasPeriod(os_path_split(location)[2])
    THEN {{IF n = 0 THEN location ELSE NumberedLocation(location, n) : n \in S} :
             S \in TakenNumbers}
    ELSE {{}, {location}}

InitPaths ==
    /\ file_location \in Locations
    /\ fs \in FileSystems(file_location)
    /\ new_file_number = 0
    /\ upc = "call"
    /\ uret = <<>>

\* Lines 19-25: the path itself when it is free; else the name is split at its
\* last period.
get_unused_filename_call ==
    /\ upc = "call"
    /\ IF ~isfile(file_location)
       THEN upc' = "returned" /\ uret' = file_location
       ELSE IF ~HasPeriod(os_path_split(file_location)[2])
       THEN upc' = "ValueError" /\ uret' = uret
       ELSE upc' = "loop" /\ uret' = uret
    /\ UNCHANGED <<fs, file_location, new_file_number>>

\* Lines 26-33: one turn of the loop.
get_unused_filename_loop ==
    /\ upc = "loop"
    /\ new_file_number' = new_file_number + 1
    /\ LET new_file_location == NumberedLocation(file_location, new_file_number')
       IN  IF ~isfile(new_file_location)
           THEN upc' = "returned" /\ uret' = new_file_location
           ELSE IF new_file_number' >= LastFileNumber
           THEN upc' = "Exception" /\ uret' = uret
           ELSE upc' = "loop" /\ uret' = uret
    /\ UNCHANGED <<fs, file_location>>

IdleFinder ==
    /\ per_file_fields = <<>>
    /\ config = EmptyIssues
    /\ bulk_config_data = <<>>
    /\ associated_names_map = <<>>
    /\ use_validator_config = [i \in Instances |-> NewFinder]
    /\ last = NoCall
    /\ prev = NoCall
    /\ fields_file = NoFilename

IdleWorkers ==
    /\ mode = "shared"
    /\ wpc = [w \in {1, 2} |-> "done"]
    /\ trace = <<>>
    /\ wret = [w \in {1, 2} |-> EmptyIssues]

IdleYears ==
    /\ bib_year = <<>> /\ bib_string = <<>>
    /\ holdings_year = <<>> /\ holdings_string = <<>>
    /\ ypc = "idle"
    /\ new_bib_year = <<>> /\ new_holdings_year = <<>>
    /\ yret = FALSE

IdlePaths ==
    /\ fs = {}
    /\ file_location = <<>>
    /\ new_file_number = 0
    /\ upc = "idle"
    /\ uret = <<>>

Init == InitFinder /\ IdleWorkers /\ IdleYears /\ IdlePaths

Next ==
    \/ \E f \in Files :
          get_fields_for_individual_file("shared", f)
          /\ UNCHANGED <<worker_vars, year_vars, path_vars>>
    \/ \E f \in Files \cup {NoFilename} :
          get_issues_for_individual_file("shared", f)
          /\ UNCHANGED <<worker_vars, year_vars, path_vars>>
    \/ \E f \in Files \cup {NoFilename} :
          get_disqualifying_issue_categories(f)
          /\ UNCHANGED <<worker_vars, year_vars, path_vars>>

Spec == Init /\ [][Next]_vars

InitInterleaved == InitFinder /\ InitWorkers /\ IdleYears /\ IdlePaths

NextInterleaved ==
    \/ \E w \in {1, 2} : WorkerFields(w) /\ UNCHANGED <<year_vars, path_vars>>
    \/ \E w \in {1, 2} : WorkerIssues(w) /\ UNCHANGED <<year_vars, path_vars>>

SpecInterleaved == InitInterleaved /\ [][NextInterleaved]_vars

InitSlashYears == IdleFinder /\ IdleWorkers /\ InitYears /\ IdlePaths

NextSlashYears ==
    \/ double_check_slash_start_year /\ UNCHANGED <<finder_vars, worker_vars, path_vars>>
    \/ double_check_slash_end_year /\ UNCHANGED <<finder_vars, worker_vars, path_vars>>

SpecSlashYears == InitSlashYears /\ [][NextSlashYears]_vars

InitUnusedFilename == IdleFinder /\ IdleWorkers /\ IdleYears /\ InitPaths

NextUnusedFilename ==
    \/ get_unused_filename_call /\ UNCHANGED <<finder_vars, worker_vars, year_vars>>
    \/ get_unused_filename_loop /\ UNCHANGED <<finder_vars, worker_vars, year_vars>>

SpecUnusedFilename ==
    InitUnusedFilename /\ [][NextUnusedFilename]_vars /\ WF_vars(NextUnusedFilename)

(***************************************************************************)
(* The lookup as the specification words it, used to state the claims.     *)
(***************************************************************************)

KeyOf(f) == IF f = F1 THEN InstA ELSE InstB
HasOverride(f) == f \in DOMAIN per_file_fields
OverrideNonEmpty(f) == f \in DOMAIN per_file_fields /\ per_file_fields[f] # <<>>
InBulk(k) == k \in DOMAIN bulk_config_data
InAlias(k) == k \in DOMAIN associated_names_map
Baseline == ("binding" :> TRUE @@ "completeness" :> TRUE @@ "nonprint" :> FALSE)
GlobalDefaultOrBaseline ==
    IF config = ("disqualifying_issues" :> GlobalIssues) THEN GlobalIssues ELSE Baseline
ExpectedIssues(flag, f) ==
    IF f # NoFilename /\ InBulk(KeyOf(f)) /\ ~flag THEN BulkIssues(KeyOf(f))
    ELSE IF f # NoFilename /\ InAlias(KeyOf(f))
    THEN BulkIssues(associated_names_map[KeyOf(f)])
    ELSE GlobalDefaultOrBaseline
Categories == {"binding", "completeness", "nonprint"}
IsIssueFlags(m) == \E D \in SUBSET Categories : m \in [D -> BOOLEAN]
TheFinder == use_validator_config["shared"]

\* C1: after resolve_fields(F) has returned F's per-file override, the immediately
\* following resolve_issues(F) returns the global default issue flags (the built-in
\* baseline when there is no non-empty global default), whatever the bulk store
\* and the alias map hold.
C1_OverrideThenGlobalDefault ==
    (/\ last.op = "issues" /\ prev.op = "fields"
     /\ last.file \in Files /\ prev.file = last.file
     /\ HasOverride(last.file) /\ ~prev.none
     /\ prev.val = per_file_fields[last.file])
    => last.val = GlobalDefaultOrBaseline

\* C2 as claimed: resolve_fields returns the per-file override whenever one exists,
\* else the institution's bulk entry, else the entry of the alias's canonical
\* institution, else nothing.
C2_FieldsPrecedenceAnyOverride ==
    last.op = "fields" =>
        LET f == last.file
            k == KeyOf(f)
        IN  IF HasOverride(f) THEN ~last.none /\ last.val = per_file_fields[f]
            ELSE IF InBulk(k) THEN ~last.none /\ last.val = BulkFields(k)
            ELSE IF InAlias(k)
            THEN ~last.none /\ last.val = BulkFields(associated_names_map[k])
            ELSE last.none

\* C2 as amended: resolve_fields returns the per-file override whenever a
\* non-empty one exists (an empty override counts as none), else the institution's
\* bulk entry (also when the key is an alias too), else the entry of the alias's
\* canonical institution, else nothing.
C2_FieldsPrecedence ==
    last.op = "fields" =>
        LET f == last.file
            k == KeyOf(f)
        IN  IF OverrideNonEmpty(f) THEN ~last.none /\ last.val = per_file_fields[f]
            ELSE IF InBulk(k) THEN ~last.none /\ last.val = BulkFields(k)
            ELSE IF InAlias(k)
            THEN ~last.none /\ last.val = BulkFields(associated_names_map[k])
            ELSE last.none

\* A fields lookup of a file whose institution has a bulk entry and is an alias
\* too, with no override: the bulk entry wins.
C2_Witness ==
    /\ last.op = "fields" /\ ~OverrideNonEmpty(last.file)
    /\ InBulk(KeyOf(last.file)) /\ InAlias(KeyOf(last.file))
    /\ last.val = BulkFields(KeyOf(last.file))

\* C3: resolve_issues always returns an issue-flags mapping, never nothing; and
\* when no bulk entry applies, the institution is no alias and there is no
\* non-empty global default, the mapping is the built-in baseline.
C3_AlwaysSomeIssuePolicy ==
    last.op = "issues" =>
        /\ ~last.none
        /\ IsIssueFlags(last.val)
        /\ DOMAIN last.val # {}
        /\ LET f == last.file
           IN  (/\ f = NoFilename \/ (~(InBulk(KeyOf(f)) /\ ~TheFinder) /\ ~InAlias(KeyOf(f)))
                /\ config # ("disqualifying_issues" :> GlobalIssues))
               => last.val = Baseline

\* An issues lookup with the override bit set, an empty global default and no
\* alias: the baseline is returned.
C3_Witness ==
    /\ last.op = "issues" /\ last.file \in Files /\ TheFinder
    /\ InBulk(KeyOf(last.file)) /\ ~InAlias(KeyOf(last.file))
    /\ "disqualifying_issues" \in DOMAIN config
    /\ config["disqualifying_issues"] = EmptyIssues
    /\ last.val = Baseline

\* C7 as claimed: an issues lookup that directly follows another issues lookup on
\* the same finder returns what it would return with the override bit false.
C7_OnlyNextIssuesLookup ==
    (last.op = "issues" /\ prev.op = "issues")
    => last.val = ExpectedIssues(FALSE, last.file)

\* C7 as amended: the bit recorded by a fields lookup stays until the next fields
\* lookup; every issues lookup on the finder, the second and later ones too, is
\* decided by the bit the latest fields lookup recorded (false before the first).
C7_BitStaysUntilNextFieldsLookup ==
    last.op = "issues"
    => last.val = ExpectedIssues(OverrideNonEmpty(fields_file), last.file)

\* A second issues lookup in a row that the bit still decides: the file's own bulk
\* entry is passed over.
C7_Witness ==
    /\ last.op = "issues" /\ prev.op = "issues"
    /\ OverrideNonEmpty(fields_file)
    /\ last.file \in Files /\ InBulk(KeyOf(last.file))
    /\ last.val # BulkIssues(KeyOf(last.file))

\* C9: active_issue_categories(filename) is the set of categories that are truthy
\* in what an issues lookup returns on a new finder (bit false), whatever fields
\* lookups came before; for a file with an override and a bulk entry these are the
\* truthy categories of the bulk entry.
C9_ActiveCategories ==
    last.op = "categories" =>
        LET f == last.file
            m == ExpectedIssues(FALSE, f)
        IN  /\ last.val = {c \in Categories : c \in DOMAIN m /\ m[c] = TRUE}
            /\ (f # NoFilename /\ HasOverride(f) /\ InBulk(KeyOf(f)))
               => last.val = {c \in DOMAIN BulkIssues(KeyOf(f)) : BulkIssues(KeyOf(f))[c]}

\* The categories of a file with an override and a bulk entry, asked for while the
\* session's finder has its override bit set.
C9_Witness ==
    /\ last.op = "categories" /\ last.file = F1 /\ TheFinder
    /\ OverrideNonEmpty(F1) /\ InBulk(InstA)
    /\ last.val = {"binding"}

\* C10: an issues lookup changes neither the override bit nor any configuration
\* store; a fields lookup changes nothing but the bit, which is then true exactly
\* when a non-empty per-file override was returned for that filename.
C10_Frame ==
    [][/\ UNCHANGED <<per_file_fields, config, bulk_config_data, associated_names_map>>
       /\ last'.op = "issues" => UNCHANGED use_validator_config
       /\ last'.op = "fields" =>
             /\ \A i \in Instances \ {"shared"} :
                    use_validator_config'[i] = use_validator_config[i]
             /\ use_validator_config'["shared"] =
                    (/\ OverrideNonEmpty(last'.file)
                     /\ ~last'.none
                     /\ last'.val = per_file_fields[last'.file])]_vars

\* A fields lookup without an override, right after one with an override: the bit
\* is false again.
C10_Witness ==
    /\ last.op = "fields" /\ ~OverrideNonEmpty(last.file) /\ ~TheFinder
    /\ prev.op = "fields" /\ OverrideNonEmpty(prev.file)

\* C8: on one shared finder, fields(F1), fields(F2), issues(F1), with F1 having an
\* override and a bulk entry and F2 no override, gives F1 the issue flags of its
\* bulk entry, not those of its own fields-then-issues sequence; with a finder per
\* filename every interleaving gives each file the result of its own sequence.
C8_SharedFinderUnsafe ==
    /\ (/\ mode = "shared"
        /\ trace = << <<"fields", 1>>, <<"fields", 2>>, <<"issues", 1>> >>
        /\ OverrideNonEmpty(F1) /\ InBulk(InstA) /\ ~HasOverride(F2))
       => /\ wret[1] = BulkIssues(InstA)
          /\ wret[1] # ExpectedIssues(TRUE, F1)
    /\ \A w \in {1, 2} :
          (mode = "per_file" /\ wpc[w] = "done")
          => wret[w] = ExpectedIssues(OverrideNonEmpty(WorkerFile(w)), WorkerFile(w))

\* The interleaving of the claim on a shared finder.
C8_Witness ==
    /\ mode = "shared"
    /\ trace = << <<"fields", 1>>, <<"fields", 2>>, <<"issues", 1>> >>
    /\ OverrideNonEmpty(F1) /\ InBulk(InstA) /\ ~HasOverride(F2)
    /\ wret[1] = BulkIssues(InstA)

YearOf(y) == StrOf(y)

\* C4: a slash-year correction moves one way only: in the start check the bib
\* year never increases and the holdings year never decreases; in the end check
\* the holdings year never increases and the bib year never decreases.
C4_OneDirection ==
    /\ ypc = "start" =>
          /\ IntOf(new_bib_year) <= IntOf(bib_year)
          /\ IntOf(new_holdings_year) >= IntOf(holdings_year)
    /\ ypc = "end" =>
          /\ IntOf(new_holdings_year) <= IntOf(holdings_year)
          /\ IntOf(new_bib_year) >= IntOf(bib_year)

\* A start check in which both years were corrected.
C4_Witness ==
    /\ ypc = "start"
    /\ IntOf(new_bib_year) < IntOf(bib_year)
    /\ IntOf(new_holdings_year) > IntOf(holdings_year)

\* C5: a holdings start of year Y written "Y/Z", Z being Y+1 in full or as its
\* two digits, is never too early for a bib start of Y+1 written plainly, for
\* every Y up to 2020.
C5_NoFalseTooEarly ==
    \A y \in YearValues :
        (/\ ypc = "start" /\ y <= 2020
         /\ holdings_year = YearOf(y)
         /\ holdings_string \in {YearOf(y) \o <<"/">> \o z : z \in SecondForms(y + 1)}
         /\ bib_year = YearOf(y + 1)
         /\ bib_string = YearOf(y + 1))
        => yret = TRUE

\* "base(n).ext" as the specification words it: "(n)" before the extension, at
\* the end of a name that has none.
AppendNumber(location, n) ==
    LET slash == LastIndexOf(location, "/")
        dot == LastIndexOf(location, ".")
        cut == IF dot > slash THEN dot ELSE Len(location) + 1
    IN  Slice(location, 1, cut - 1) \o <<"(">> \o StrOf(n) \o <<")">>
          \o Slice(location, cut, Len(location))
Exhausted ==
    file_location \in fs /\ \A n \in 1..999 : AppendNumber(file_location, n) \in fs
Finished == upc \in {"returned", "Exception", "ValueError"}

\* C6: unique_path returns the path unchanged when it does not exist; otherwise
\* the candidate with the smallest n in 1..999 that does not exist, never a path
\* that exists; and it fails with an error exactly when the path and all the
\* candidates 1..999 exist.
C6_UniquePath ==
    /\ upc = "returned" =>
          /\ uret \notin fs
          /\ file_location \notin fs => uret = file_location
          /\ file_location \in fs =>
                \E n \in 1..999 :
                    /\ uret = AppendNumber(file_location, n)
                    /\ \A m \in 1..(n - 1) : AppendNumber(file_location, m) \in fs
    /\ Finished => (upc \in {"Exception", "ValueError"} <=> Exhausted)

\* C6, the part of the claim that the code keeps: on a name with a period.
C6_OnNamesWithPeriod ==
    HasPeriod(os_path_split(file_location)[2]) => C6_UniquePath

\* C6, termination: every call returns or raises.
C6_Terminates == <>Finished

====
